---- MODULE Spec2Model ----
(***************************************************************************)
(* Model of generate_background_v2.py: a straight-line script that paints  *)
(* layers onto one matplotlib axes and exports the figure twice.           *)
(*                                                                         *)
(* Lengths and coordinates are fixed-point integers in hundredths of a     *)
(* data unit (0.5 is 50, 10 is 1000); opacities are in thousandths; line   *)
(* widths and marker sizes in hundredths of a point; figure sizes in       *)
(* thousandths of an inch.                                                 *)
(*                                                                         *)
(* The process is run twice (run 1, then a fresh process run 2 in the same *)
(* directory) so that properties relating two runs can be stated.          *)
(***************************************************************************)
EXTENDS Integers, Sequences, FiniteSets

VARIABLES
    pc,          \* position of the interpreter in the script
    run,         \* 1 or 2: which execution of the script this is
    rng,         \* state of numpy's global random generator
    i,           \* index of the loop being executed
    calls,       \* drawing calls issued on the axes so far, in issue order
    px, py, sizes, alphas,   \* the particle arrays (lines 143-146)
    fig,         \* figure and axes settings
    files,       \* the two output paths in the working directory
    written,     \* names of the files written by this run, in order
    stdout,      \* lines printed by this run
    events,      \* this run's trace of effects: "draw", "save", "print"
    regions,     \* the mesh_regions list this run iterates over
    nextRegions, \* the mesh_regions list run 2 will iterate over
    prev,        \* what run 1 left behind (calls, files, particles, outcome)
    sample       \* scratch cell of the sampling specification

vars == <<pc, run, rng, i, calls, px, py, sizes, alphas, fig, files, written,
          stdout, events, regions, nextRegions, prev, sample>>

(***************************************************************************)
(* Bounds of the model.                                                    *)
(***************************************************************************)
\* The random generator has RngMod states and a draw has RngMod outcomes.
RngMod == 32

(***************************************************************************)
(* Literals of the script.                                                 *)
(***************************************************************************)
figsize == <<19200, 10800>>      \* (19.2, 10.8) inches, in thousandths
dpi == 200
mesh_seed == 42
particle_seed == 123
n_particles == 80
quiver_n == 12                   \* 12j: points per axis of np.mgrid
grid_n == 15                     \* np.linspace(0.5, 9.5, 15)
lim_lo == 0                      \* set_xlim(0, 10) / set_ylim(0, 10)
lim_hi == 1000

PNG == "hero-background.png"
JPG == "hero-background.jpg"
OutputNames == {PNG, JPG}

\* (freq, phase in twelfths of pi, alpha, linewidth, offset)
wave_configs ==
    << <<180, 0, 200, 250, 500>>,
       <<240, 4, 180, 200, 450>>,
       <<320, 6, 150, 180, 550>>,
       <<200, 12, 120, 220, 600>>,
       <<380, 9, 100, 150, 400>> >>

\* (bounds = [xlo, xhi, ylo, yhi], n_pts)
mesh_regions ==
    << << <<50, 250, 50, 250>>, 15 >>,
       << <<700, 950, 700, 950>>, 12 >>,
       << <<300, 600, 200, 500>>, 18 >> >>

\* (equation, (x_pos, y_pos), fontsize)
equations ==
    << << "div u = 0", <<120, 880>>, 16 >>,
       << "laplace p = -w^2 c^-2 p", <<820, 150>>, 14 >>,
       << "min_m J(m)", <<850, 850>>, 16 >>,
       << "g = grad_m J", <<150, 180>>, 14 >> >>

\* (cx, cy, radius, alpha, linewidth)
circles ==
    << <<220, 720, 80, 100, 250>>,
       <<780, 300, 70, 120, 220>>,
       <<500, 520, 100, 80, 280>> >>

\* (cx, cy, dx, dy)
corner_elements ==
    << <<30, 30, 50, 50>>,
       <<970, 970, -50, -50>> >>

status_lines ==
    << "High-quality background images generated successfully!",
       "  - hero-background.png (transparent, 200 DPI)",
       "  - hero-background.jpg (solid background, 200 DPI)" >>

(***************************************************************************)
(* numpy helpers.                                                          *)
(***************************************************************************)
\* np.linspace(lo, hi, n)[k-1], and np.mgrid[lo:hi:nj] along one axis.
linspace(lo, hi, n, k) == lo + ((hi - lo) * (k - 1)) \div (n - 1)

\* np.random.seed(n): the generator state becomes a function of n alone.
seed(s, n) == n % RngMod

\* One step of the generator (an additive congruential generator stands in
\* for the Mersenne Twister: the next state is a function of the state, and
\* a draw's outcome is a function of the state it leaves).
rngNext(s) == (s + 7) % RngMod

\* The state after k draws from state s: rngNext applied k times.
rngAfter(s, k) == (s + 7 * k) % RngMod

\* A draw that scales by high instead of high - low.
uniformScaleHigh(lo, hi, u) == lo + (hi * u + RngMod \div 2) \div RngMod
\* low + (high - low) * random_sample(), random_sample() = u / RngMod in
\* [0, 1), rounded to the nearest representable value (so high itself can
\* come out, as numpy documents).
uniform1(lo, hi, u) == lo + ((hi - lo) * u + RngMod \div 2) \div RngMod

\* np.random.uniform(lo, hi, n) from generator state s: the n values.
uniform(s, lo, hi, n) == [k \in 1..n |-> uniform1(lo, hi, rngAfter(s, k))]

(***************************************************************************)
(* matplotlib: artists, stacking and export.                               *)
(***************************************************************************)
Layers == <<"background", "waves", "mesh", "arrows", "labels", "circles",
            "grid", "corners", "particles">>

LayerIndex(l) == CHOOSE k \in 1..Len(Layers) : Layers[k] = l

\* A drawing call as issued on the axes: its position in issue order, the
\* layer it paints, the Axes method, its arguments and the extent
\* <<x0, y0, x1, y1>> of what it draws.
Call(n, l, k, a, e) ==
    [seq |-> n, layer |-> l, kind |-> k, args |-> a, ext |-> e]

\* Every artist in one stacking class: pure issue order.
ZorderFlat(c) == 2
\* Default zorder of the artist each Axes method creates: imshow an
\* AxesImage (0), quiver a PolyCollection and add_patch a Patch (1),
\* plot and triplot Line2D (2), text a Text (3).  No call of the script
\* passes zorder.
Zorder(c) ==
    CASE c.kind = "imshow" -> 0
      [] c.kind \in {"quiver", "add_patch"} -> 1
      [] c.kind \in {"plot", "triplot"} -> 2
      [] c.kind = "text" -> 3

\* Axes.draw paints the artists sorted by zorder, the sort being stable:
\* equal zorder keeps the order in which the artists were added.
RenderOrder(cs) ==
    SelectSeq(cs, LAMBDA c : Zorder(c) = 0) \o
    SelectSeq(cs, LAMBDA c : Zorder(c) = 1) \o
    SelectSeq(cs, LAMBDA c : Zorder(c) = 2) \o
    SelectSeq(cs, LAMBDA c : Zorder(c) = 3)

\* The figure before plt.figure() and right after it (rcParams defaults).
NoFigure == [open |-> FALSE, face |-> "white", axface |-> "white",
             aspect |-> "auto", axison |-> TRUE, tight |-> FALSE,
             xlim |-> <<0, 100>>, ylim |-> <<0, 100>>]
NewFigure == [NoFigure EXCEPT !.open = TRUE]

\* The region of the figure the axes may occupy, in thousandths of an inch:
\* the default subplot parameters (0.125..0.9 by 0.11..0.88) or, after
\* tight_layout(pad=0), the whole figure.
AxesSlot(f) ==
    IF f.tight THEN figsize
    ELSE <<(figsize[1] * 775) \div 1000, (figsize[2] * 770) \div 1000>>

\* The box the axes is drawn in.  With aspect 'equal' (adjustable 'box') the
\* box is shrunk inside its slot until one data unit is as long in x as in y.
AxesBox(f) ==
    LET w == AxesSlot(f)[1]
        h == AxesSlot(f)[2]
        xr == f.xlim[2] - f.xlim[1]
        yr == f.ylim[2] - f.ylim[1]
    IN  IF f.aspect = "auto" THEN <<w, h>>
        ELSE IF h * xr >= w * yr THEN <<w, (w * yr) \div xr>>
        ELSE <<(h * xr) \div yr, h>>

\* bbox_inches='tight', pad_inches=0: the export is cropped to the bounding
\* box of what is drawn.  With the axis off and every artist inside or
\* clipped to the axes that is the axes box.
ExportBox(f, bbox_inches) ==
    IF bbox_inches = "tight" THEN AxesBox(f) ELSE figsize

\* The figure facecolor an export uses: the facecolor argument if given,
\* else 'none' under transparent=True, else the figure's own.
EffectiveFace(f, facecolor, transparent) ==
    IF facecolor # "default" THEN facecolor
    ELSE IF transparent THEN "none" ELSE f.face

\* plt.savefig(fname, dpi=, bbox_inches=, facecolor=, transparent=): the
\* content of the file written.  A PNG is RGBA; a JPEG has no alpha channel,
\* an unfilled figure being flattened onto white.
savefig(f, cs, fmt, d, bbox_inches, facecolor, transparent) ==
    LET face == EffectiveFace(f, facecolor, transparent)
        box == ExportBox(f, bbox_inches)
    IN  [format |-> fmt,
         width |-> (box[1] * d) \div 1000,
         height |-> (box[2] * d) \div 1000,
         alpha |-> (fmt = "png"),
         fill |-> IF fmt = "jpg" /\ face = "none" THEN "white" ELSE face,
         canvas |-> RenderOrder(cs)]

\* An export that leaves its facecolors on the figure and axes.
figAfterSaveLeak(f, facecolor, transparent) ==
    [f EXCEPT !.face = EffectiveFace(f, facecolor, transparent),
              !.axface = IF transparent THEN "none" ELSE f.axface]
\* The figure after savefig returns: the facecolors set for the export are
\* restored on exit.
figAfterSave(f, facecolor, transparent) == f

Absent == [format |-> "absent"]

SeqMin(q) == CHOOSE v \in {q[k] : k \in 1..Len(q)} :
                \A k \in 1..Len(q) : v <= q[k]
SeqMax(q) == CHOOSE v \in {q[k] : k \in 1..Len(q)} :
                \A k \in 1..Len(q) : v >= q[k]

(***************************************************************************)
(* The script, one action per statement or loop iteration.                 *)
(***************************************************************************)
NoArrays == <<>>
NoPrev == [pc |-> "none", calls |-> <<>>, files |-> [n \in OutputNames |-> Absent],
           px |-> <<>>, py |-> <<>>, sizes |-> <<>>, alphas |-> <<>>,
           regions |-> <<>>]

Start(r, rs, nrs) ==
    /\ pc = "figure"
    /\ run = 1
    /\ rng = r
    /\ i = 1
    /\ calls = <<>>
    /\ px = NoArrays /\ py = NoArrays /\ sizes = NoArrays /\ alphas = NoArrays
    /\ fig = NoFigure
    /\ files = [n \in OutputNames |-> Absent]
    /\ written = <<>>
    /\ stdout = <<>>
    /\ events = <<>>
    /\ regions = rs
    /\ nextRegions = nrs
    /\ prev = NoPrev
    /\ sample = <<>>

\* The script is started in an empty directory; the generator of a fresh
\* process is in a state the script does not choose.
Init == \E r \in 0..(RngMod - 1) : Start(r, mesh_regions, mesh_regions)

Running == pc \notin {"done", "failed", "sampling", "sampled"}

Draw(cs) ==
    /\ calls' = calls \o cs
    /\ events' = events \o [k \in 1..Len(cs) |-> "draw"]

\* A loop that stops one iteration early.
LoopShort(n, after) ==
    IF i < n - 1 THEN pc' = pc /\ i' = i + 1 ELSE pc' = after /\ i' = 1
\* Leaves pc and i: the next loop index, or the statement after the loop.
Loop(n, after) ==
    IF i < n THEN pc' = pc /\ i' = i + 1 ELSE pc' = after /\ i' = 1

\* fig = plt.figure(figsize=(19.2, 10.8), dpi=200); ax = plt.gca()
Figure ==
    /\ pc = "figure"
    /\ fig' = NewFigure
    /\ pc' = "background"
    /\ UNCHANGED <<run, rng, i, calls, px, py, sizes, alphas, files, written,
                   stdout, events, regions, nextRegions, prev, sample>>

\* ax.imshow(background, extent=[0, 10, 0, 10], aspect='auto', alpha=1.0)
Background ==
    /\ pc = "background"
    /\ Draw(<< Call(Len(calls) + 1, "background", "imshow", <<1000>>,
                    <<lim_lo, lim_lo, lim_hi, lim_hi>>) >>)
    /\ fig' = [fig EXCEPT !.xlim = <<lim_lo, lim_hi>>,
                          !.ylim = <<lim_lo, lim_hi>>,
                          !.aspect = "auto"]
    /\ pc' = "waves"
    /\ UNCHANGED <<run, rng, i, px, py, sizes, alphas, files, written, stdout,
                   regions, nextRegions, prev, sample>>

\* for freq, phase, alpha_val, lw, offset in wave_configs: ax.plot(t, y_wave)
\* y_wave stays within offset +- (1.2 + 0.3) over t in [0, 10].
Waves ==
    /\ pc = "waves"
    /\ LET w == wave_configs[i]
       IN  Draw(<< Call(Len(calls) + 1, "waves", "plot", w,
                        <<lim_lo, w[5] - 150, lim_hi, w[5] + 150>>) >>)
    /\ Loop(Len(wave_configs), "seed_mesh")
    /\ UNCHANGED <<run, rng, px, py, sizes, alphas, fig, files, written,
                   stdout, regions, nextRegions, prev, sample>>

\* The script without its first seed call.
SeedMeshSkip ==
    /\ pc = "seed_mesh"
    /\ pc' = "mesh"
    /\ UNCHANGED <<run, rng, i, calls, px, py, sizes, alphas, fig, files,
                   written, stdout, events, regions, nextRegions, prev, sample>>
\* np.random.seed(42)
SeedMesh ==
    /\ pc = "seed_mesh"
    /\ rng' = seed(rng, mesh_seed)
    /\ pc' = "mesh"
    /\ UNCHANGED <<run, i, calls, px, py, sizes, alphas, fig, files, written,
                   stdout, events, regions, nextRegions, prev, sample>>

\* for bounds, n_pts in mesh_regions: mesh_x, mesh_y = uniform draws;
\* ax.triplot(Triangulation(mesh_x, mesh_y))
Mesh ==
    /\ pc = "mesh"
    /\ LET bounds == regions[i][1]
           n_pts == regions[i][2]
           mesh_x == uniform(rng, bounds[1], bounds[2], n_pts)
           mid == rngAfter(rng, n_pts)
           mesh_y == uniform(mid, bounds[3], bounds[4], n_pts)
       IN  /\ Draw(<< Call(Len(calls) + 1, "mesh", "triplot",
                           mesh_x \o mesh_y,
                           <<SeqMin(mesh_x), SeqMin(mesh_y),
                             SeqMax(mesh_x), SeqMax(mesh_y)>>) >>)
           /\ rng' = rngAfter(mid, n_pts)
    /\ Loop(Len(regions), "quiver")
    /\ UNCHANGED <<run, px, py, sizes, alphas, fig, files, written, stdout,
                   regions, nextRegions, prev, sample>>

\* Y_grid, X_grid = np.mgrid[0.8:9.2:12j, 0.8:9.2:12j]; ax.quiver(X_grid,
\* Y_grid, U, V): one arrow per grid point, row-major, X varying fastest.
QuiverPoints ==
    [k \in 1..(quiver_n * quiver_n) |->
        linspace(80, 920, quiver_n, ((k - 1) % quiver_n) + 1)] \o
    [k \in 1..(quiver_n * quiver_n) |->
        linspace(80, 920, quiver_n, ((k - 1) \div quiver_n) + 1)]

\* The arrow field followed directly by the circles, the labels left out.
QuiverSkipLabels ==
    /\ pc = "quiver"
    /\ Draw(<< Call(Len(calls) + 1, "arrows", "quiver", QuiverPoints,
                    <<80, 80, 920, 920>>) >>)
    /\ pc' = "circles"
    /\ UNCHANGED <<run, rng, i, px, py, sizes, alphas, fig, files, written,
                   stdout, regions, nextRegions, prev, sample>>
\* ax.quiver(X_grid, Y_grid, U, V, ...)
Quiver ==
    /\ pc = "quiver"
    /\ Draw(<< Call(Len(calls) + 1, "arrows", "quiver", QuiverPoints,
                    <<80, 80, 920, 920>>) >>)
    /\ pc' = "text"
    /\ UNCHANGED <<run, rng, i, px, py, sizes, alphas, fig, files, written,
                   stdout, regions, nextRegions, prev, sample>>

\* for eq, (x_pos, y_pos), fsize in equations: ax.text(x_pos, y_pos, eq)
\* A label covers at least its first glyph, a tenth of a data unit.
Text ==
    /\ pc = "text"
    /\ LET e == equations[i]
       IN  Draw(<< Call(Len(calls) + 1, "labels", "text",
                        <<e[2][1], e[2][2], e[3], i>>,
                        <<e[2][1], e[2][2], e[2][1] + 10, e[2][2] + 10>>) >>)
    /\ Loop(Len(equations), "circles")
    /\ UNCHANGED <<run, rng, px, py, sizes, alphas, fig, files, written,
                   stdout, regions, nextRegions, prev, sample>>

\* Circle((cx, cy), radius, fill=False): the outline, by its bounding box.
CirclePatch(n, cx, cy, radius, alpha_val, lw) ==
    Call(n, "circles", "add_patch", <<cx, cy, radius, alpha_val, lw>>,
         <<cx - radius, cy - radius, cx + radius, cy + radius>>)

\* for cx, cy, radius, alpha_val, lw in circles: ax.add_patch(circle);
\* ax.add_patch(inner_circle)
Circles ==
    /\ pc = "circles"
    /\ LET c == circles[i]
       IN  Draw(<< CirclePatch(Len(calls) + 1, c[1], c[2], c[3], c[4], c[5]),
                   CirclePatch(Len(calls) + 2, c[1], c[2], (c[3] * 6) \div 10,
                               (c[4] * 5) \div 10, (c[5] * 6) \div 10) >>)
    /\ Loop(Len(circles), "grid")
    /\ UNCHANGED <<run, rng, px, py, sizes, alphas, fig, files, written,
                   stdout, regions, nextRegions, prev, sample>>

\* A straight stroke ax.plot([x0, x1], [y0, y1]).
Stroke(n, l, x0, y0, x1, y1, lw, alpha_val) ==
    Call(n, l, "plot", <<x0, y0, x1, y1, lw, alpha_val>>,
         <<IF x0 <= x1 THEN x0 ELSE x1, IF y0 <= y1 THEN y0 ELSE y1,
           IF x0 <= x1 THEN x1 ELSE x0, IF y0 <= y1 THEN y1 ELSE y0>>)

\* for i in np.linspace(0.5, 9.5, 15): ax.plot([i, i], [0, 10]);
\* ax.plot([0, 10], [i, i])
Grid ==
    /\ pc = "grid"
    /\ LET v == linspace(50, 950, grid_n, i)
       IN  Draw(<< Stroke(Len(calls) + 1, "grid", v, 0, v, 1000, 30, 40),
                   Stroke(Len(calls) + 2, "grid", 0, v, 1000, v, 30, 40) >>)
    /\ Loop(grid_n, "corners")
    /\ UNCHANGED <<run, rng, px, py, sizes, alphas, fig, files, written,
                   stdout, regions, nextRegions, prev, sample>>

\* for cx, cy, dx, dy in corner_elements: ax.plot([cx, cx + dx], [cy, cy]);
\* ax.plot([cx, cx], [cy, cy + dy])
Corners ==
    /\ pc = "corners"
    /\ LET c == corner_elements[i]
       IN  Draw(<< Stroke(Len(calls) + 1, "corners", c[1], c[2],
                          c[1] + c[3], c[2], 300, 200),
                   Stroke(Len(calls) + 2, "corners", c[1], c[2],
                          c[1], c[2] + c[4], 300, 200) >>)
    /\ Loop(Len(corner_elements), "seed_particles")
    /\ UNCHANGED <<run, rng, px, py, sizes, alphas, fig, files, written,
                   stdout, regions, nextRegions, prev, sample>>

\* The particle draws without the reseeding before them.
SeedParticlesSkip ==
    /\ pc = "seed_particles"
    /\ LET s1 == rngAfter(rng, n_particles)
           s2 == rngAfter(s1, n_particles)
           s3 == rngAfter(s2, n_particles)
       IN  /\ px' = uniform(rng, lim_lo, lim_hi, n_particles)
           /\ py' = uniform(s1, lim_lo, lim_hi, n_particles)
           /\ sizes' = uniform(s2, 100, 400, n_particles)
           /\ alphas' = uniform(s3, 50, 150, n_particles)
           /\ rng' = rngAfter(s3, n_particles)
    /\ pc' = "particles"
    /\ UNCHANGED <<run, i, calls, fig, files, written, stdout, events, regions,
                   nextRegions, prev, sample>>
\* np.random.seed(123); px, py, sizes, alphas = four uniform draws of
\* n_particles values each, in this order.
SeedParticles ==
    /\ pc = "seed_particles"
    /\ LET s0 == seed(rng, particle_seed)
           s1 == rngAfter(s0, n_particles)
           s2 == rngAfter(s1, n_particles)
           s3 == rngAfter(s2, n_particles)
       IN  /\ px' = uniform(s0, lim_lo, lim_hi, n_particles)
           /\ py' = uniform(s1, lim_lo, lim_hi, n_particles)
           /\ sizes' = uniform(s2, 100, 400, n_particles)
           /\ alphas' = uniform(s3, 50, 150, n_particles)
           /\ rng' = rngAfter(s3, n_particles)
    /\ pc' = "particles"
    /\ UNCHANGED <<run, i, calls, fig, files, written, stdout, events, regions,
                   nextRegions, prev, sample>>

\* for i in range(n_particles): ax.plot(px[i], py[i], 'o',
\* markersize=sizes[i], alpha=alphas[i])
Particles ==
    /\ pc = "particles"
    /\ Draw(<< Call(Len(calls) + 1, "particles", "plot",
                    <<px[i], py[i], sizes[i], alphas[i]>>,
                    <<px[i], py[i], px[i], py[i]>>) >>)
    /\ Loop(n_particles, "cleanup")
    /\ UNCHANGED <<run, rng, px, py, sizes, alphas, fig, files, written,
                   stdout, regions, nextRegions, prev, sample>>

\* ax.set_xlim(0, 10); ax.set_ylim(0, 10); ax.axis('off');
\* ax.set_aspect('equal')
Cleanup ==
    /\ pc = "cleanup"
    /\ fig' = [fig EXCEPT !.xlim = <<lim_lo, lim_hi>>,
                          !.ylim = <<lim_lo, lim_hi>>,
                          !.axison = FALSE,
                          !.aspect = "equal"]
    /\ pc' = "tight_layout"
    /\ UNCHANGED <<run, rng, i, calls, px, py, sizes, alphas, files, written,
                   stdout, events, regions, nextRegions, prev, sample>>

\* plt.tight_layout(pad=0)
TightLayout ==
    /\ pc = "tight_layout"
    /\ fig' = [fig EXCEPT !.tight = TRUE]
    /\ pc' = "save_png"
    /\ UNCHANGED <<run, rng, i, calls, px, py, sizes, alphas, files, written,
                   stdout, events, regions, nextRegions, prev, sample>>

\* One plt.savefig call: the file is created or overwritten.
Save(name, fmt, facecolor, transparent) ==
    /\ files' = [files EXCEPT
                   ![name] = savefig(fig, calls, fmt, dpi, "tight", facecolor,
                                     transparent)]
    /\ fig' = figAfterSave(fig, facecolor, transparent)
    /\ written' = Append(written, name)
    /\ events' = Append(events, "save")

\* plt.savefig('hero-background.png', dpi=200, bbox_inches='tight',
\*             pad_inches=0, facecolor='none', edgecolor='none',
\*             transparent=True)
SavePng ==
    /\ pc = "save_png"
    /\ Save(PNG, "png", "none", TRUE)
    /\ pc' = "save_jpg"
    /\ UNCHANGED <<run, rng, i, calls, px, py, sizes, alphas, stdout, regions,
                   nextRegions, prev, sample>>

\* The second export written under the first export's name.
SaveJpgSameName ==
    /\ pc = "save_jpg"
    /\ Save(PNG, "jpg", "#1937b4", FALSE)
    /\ pc' = "close"
    /\ UNCHANGED <<run, rng, i, calls, px, py, sizes, alphas, stdout, regions,
                   nextRegions, prev, sample>>
\* plt.savefig('hero-background.jpg', dpi=200, bbox_inches='tight',
\*             pad_inches=0, facecolor='#1937b4', edgecolor='none')
SaveJpg ==
    /\ pc = "save_jpg"
    /\ Save(JPG, "jpg", "#1937b4", FALSE)
    /\ pc' = "close"
    /\ UNCHANGED <<run, rng, i, calls, px, py, sizes, alphas, stdout, regions,
                   nextRegions, prev, sample>>

\* plt.close()
Close ==
    /\ pc = "close"
    /\ fig' = [fig EXCEPT !.open = FALSE]
    /\ pc' = "print"
    /\ UNCHANGED <<run, rng, i, calls, px, py, sizes, alphas, files, written,
                   stdout, events, regions, nextRegions, prev, sample>>

\* The three print statements, then the interpreter exits with status 0.
PrintStatus ==
    /\ pc = "print"
    /\ stdout' = Append(stdout, status_lines[i])
    /\ events' = Append(events, "print")
    /\ Loop(Len(status_lines), "done")
    /\ UNCHANGED <<run, rng, calls, px, py, sizes, alphas, fig, files, written,
                   regions, nextRegions, prev, sample>>

\* An export whose exception is swallowed, the script carrying on.
FailResume ==
    /\ Running
    /\ pc \in {"save_png", "save_jpg"}
    /\ pc' = IF pc = "save_png" THEN "save_jpg" ELSE "close"
    /\ UNCHANGED <<run, rng, i, calls, px, py, sizes, alphas, fig, files,
                   written, stdout, events, regions, nextRegions, prev, sample>>
\* Nothing in the script catches an exception: a statement that raises ends
\* the process there with a traceback and a non-zero status.  The statement
\* that raised has had no effect.
Fail ==
    /\ Running
    /\ pc' = "failed"
    /\ UNCHANGED <<run, rng, i, calls, px, py, sizes, alphas, fig, files,
                   written, stdout, events, regions, nextRegions, prev, sample>>

ExitStatus == IF pc = "done" THEN 0 ELSE IF pc = "failed" THEN 1 ELSE -1

\* The script is run again: a new process in the same directory.  Only the
\* files survive; the new process's generator state is again arbitrary.
Rerun ==
    /\ pc \in {"done", "failed"}
    /\ run = 1
    /\ run' = 2
    /\ prev' = [pc |-> pc, calls |-> calls, files |-> files, px |-> px,
                py |-> py, sizes |-> sizes, alphas |-> alphas,
                regions |-> regions]
    /\ \E r \in 0..(RngMod - 1) : rng' = r
    /\ regions' = nextRegions
    /\ pc' = "figure"
    /\ i' = 1
    /\ calls' = <<>>
    /\ px' = NoArrays /\ py' = NoArrays /\ sizes' = NoArrays
    /\ alphas' = NoArrays
    /\ fig' = NoFigure
    /\ written' = <<>>
    /\ stdout' = <<>>
    /\ events' = <<>>
    /\ UNCHANGED <<files, nextRegions, sample>>

Next ==
    \/ Figure \/ Background \/ Waves \/ SeedMesh \/ Mesh \/ Quiver \/ Text
    \/ Circles \/ Grid \/ Corners \/ SeedParticles \/ Particles \/ Cleanup
    \/ TightLayout \/ SavePng \/ SaveJpg \/ Close \/ PrintStatus \/ Fail \/ Rerun

Spec == Init /\ [][Next]_vars

(***************************************************************************)
(* The script with its mesh layer edited between the two runs: run 1 is    *)
(* the script as written, run 2 iterates over another mesh_regions list.   *)
(***************************************************************************)
MeshVariants ==
    { mesh_regions,
      SubSeq(mesh_regions, 1, 2),
      [mesh_regions EXCEPT ![1][2] = 16] }

InitMesh ==
    \E r \in 0..(RngMod - 1), nrs \in MeshVariants :
        Start(r, mesh_regions, nrs)

SpecMesh == InitMesh /\ [][Next]_vars

(***************************************************************************)
(* np.random.uniform on its own: one draw with each pair of limits the     *)
(* script samples positions from, for every outcome of the generator.      *)
(***************************************************************************)
\* (name of the array, low, high) of every position draw of the script.
PositionDraws ==
    { <<"mesh_x", mesh_regions[k][1][1], mesh_regions[k][1][2]>> :
        k \in 1..Len(mesh_regions) } \cup
    { <<"mesh_y", mesh_regions[k][1][3], mesh_regions[k][1][4]>> :
        k \in 1..Len(mesh_regions) } \cup
    { <<"px", lim_lo, lim_hi>>, <<"py", lim_lo, lim_hi>> }

InitSample ==
    /\ pc = "sampling"
    /\ run = 1
    /\ rng \in 0..(RngMod - 1)
    /\ i = 1
    /\ calls = <<>>
    /\ px = NoArrays /\ py = NoArrays /\ sizes = NoArrays /\ alphas = NoArrays
    /\ fig = NoFigure
    /\ files = [n \in OutputNames |-> Absent]
    /\ written = <<>>
    /\ stdout = <<>>
    /\ events = <<>>
    /\ regions = mesh_regions
    /\ nextRegions = mesh_regions
    /\ prev = NoPrev
    /\ \E d \in PositionDraws : sample = <<d[1], d[2], d[3]>>

\* value = np.random.uniform(low, high): the generator steps once.
SampleDraw ==
    /\ pc = "sampling"
    /\ rng' = rngNext(rng)
    /\ sample' = Append(sample, uniform1(sample[2], sample[3], rngNext(rng)))
    /\ pc' = "sampled"
    /\ UNCHANGED <<run, i, calls, px, py, sizes, alphas, fig, files, written,
                   stdout, events, regions, nextRegions, prev>>

SpecSample == InitSample /\ [][SampleDraw]_vars

(***************************************************************************)
(* Properties.                                                             *)
(***************************************************************************)
Min(a, b) == IF a <= b THEN a ELSE b

\* Two call sequences agree as far as both go.
Agree(a, b) == \A k \in 1..Min(Len(a), Len(b)) : a[k] = b[k]

Finished == pc = "done"
BothFinished == run = 2 /\ pc = "done" /\ prev.pc = "done"

CountOf(l) == Cardinality({k \in 1..Len(calls) : calls[k].layer = l})
CallsOf(cs, l) == SelectSeq(cs, LAMBDA c : c.layer = l)

\* The number of drawing calls each layer issues, from the script's tables.
ExpectedCount(l) ==
    CASE l = "background" -> 1
      [] l = "waves" -> Len(wave_configs)
      [] l = "mesh" -> Len(regions)
      [] l = "arrows" -> 1
      [] l = "labels" -> Len(equations)
      [] l = "circles" -> 2 * Len(circles)
      [] l = "grid" -> 2 * grid_n
      [] l = "corners" -> 2 * Len(corner_elements)
      [] l = "particles" -> n_particles

AllDrawn == \A k \in 1..Len(Layers) : CountOf(Layers[k]) = ExpectedCount(Layers[k])

\* Two extents <<x0, y0, x1, y1>> intersect.
Overlap(e, f) == e[1] <= f[3] /\ f[1] <= e[3] /\ e[2] <= f[4] /\ f[2] <= e[4]

\* C1: determinism.  Whatever states the generator was in when run 1 and
\* run 2 started, the drawing calls of the two runs (method, arguments,
\* every sampled mesh point and particle) agree call by call as far as both
\* runs got, and two complete runs issued the same calls and left the same
\* content in both output files.
C1_Determinism ==
    run = 2 =>
        /\ Agree(calls, prev.calls)
        /\ BothFinished => (calls = prev.calls /\ files = prev.files)

C1_Witness ==
    /\ BothFinished
    /\ CountOf("mesh") = 3
    /\ CountOf("particles") = n_particles
    /\ files[PNG].canvas = prev.files[PNG].canvas

\* C2 as stated: no terminal state has exactly one of the two output files
\* written by this run.
C2_NoPartialOutput ==
    pc \in {"done", "failed"} => Len(written) # 1

\* C2 amended: a failure ends the run where it happens - the failed run
\* prints and writes nothing more, the only continuation being a new run -
\* the JPEG is never written unless the PNG was written first, and status
\* lines appear only after both exports; but a run that fails after the PNG
\* export leaves the PNG written.
C2_AbortLeavesWhatWasWritten ==
    /\ [](/\ (\E k \in 1..Len(written) : written[k] = JPG) => written = <<PNG, JPG>>
          /\ stdout # <<>> => written = <<PNG, JPG>>
          /\ pc = "failed" => written \in {<<>>, <<PNG>>, <<PNG, JPG>>})
    /\ [][pc = "failed" => (run' = 2 /\ pc' = "figure" /\ files' = files)]_vars

C2_Witness == pc = "failed" /\ written = <<PNG>> /\ stdout = <<>>

\* C3: a run that completes has written exactly hero-background.png and then
\* hero-background.jpg (replacing whatever was there), has printed exactly
\* the three status lines, every one of them after both exports, and exits
\* with status 0.
C3_TwoFilesThenThreeLines ==
    /\ Finished =>
          /\ written = <<PNG, JPG>>
          /\ files[PNG].format = "png" /\ files[JPG].format = "jpg"
          /\ stdout = status_lines
          /\ ExitStatus = 0
    /\ stdout # <<>> => written = <<PNG, JPG>>
    /\ \A k \in 1..(Len(events) - 1) :
          events[k] = "print" => events[k + 1] = "print"
    /\ Len(written) <= 2 /\ Len(stdout) <= 3

C3_Witness ==
    /\ Finished /\ run = 2
    /\ prev.files[PNG].format = "png" /\ prev.files[JPG].format = "jpg"
    /\ Len(stdout) = 3

\* C4: calls are issued layer by layer in the order background, waves, mesh,
\* arrows, labels, circles, grid, corners, particles; when the first export
\* starts every layer has issued all its calls, and no drawing call follows
\* an export.
C4_LayerOrderThenExport ==
    /\ \A k \in 1..(Len(calls) - 1) :
          LayerIndex(calls[k].layer) <= LayerIndex(calls[k + 1].layer)
    /\ (pc = "save_png" \/ written # <<>>) => AllDrawn
    /\ \A k \in 1..(Len(events) - 1) :
          events[k] # "draw" => events[k + 1] # "draw"

C4_Witness == written = <<PNG>> /\ pc = "save_jpg" /\ AllDrawn

StackClass(l) ==
    CASE l = "background" -> 0
      [] l \in {"arrows", "circles"} -> 1
      [] l \in {"waves", "mesh", "grid", "corners", "particles"} -> 2
      [] l = "labels" -> 3

EveryLayerIssued ==
    pc \in {"cleanup", "tight_layout", "save_png", "save_jpg", "close",
            "print", "done"}

\* C6: once the last layer is painted the run has issued 1 background image,
\* 5 wave strokes, 3 mesh plots of 15, 12 and 18 points, 1 arrow field of
\* 12 x 12 = 144 arrows, 4 text labels, 6 circle outlines in 3 concentric
\* pairs, 4 corner strokes in 2 marks, and 80 particle markers.
C6_CallCounts ==
    EveryLayerIssued =>
        /\ CountOf("background") = 1
        /\ CountOf("waves") = 5
        /\ CountOf("mesh") = 3
        /\ LET m == CallsOf(calls, "mesh")
           IN  <<Len(m[1].args), Len(m[2].args), Len(m[3].args)>>
                   = <<2 * 15, 2 * 12, 2 * 18>>
        /\ CountOf("arrows") = 1
        /\ Len(CallsOf(calls, "arrows")[1].args) = 2 * 144
        /\ CountOf("labels") = 4
        /\ CountOf("circles") = 6
        /\ LET c == CallsOf(calls, "circles")
           IN  \A k \in 1..3 :
                  /\ c[2 * k - 1].args[1] = c[2 * k].args[1]
                  /\ c[2 * k - 1].args[2] = c[2 * k].args[2]
                  /\ c[2 * k - 1].args[3] > c[2 * k].args[3]
        /\ CountOf("corners") = 2 * 2
        /\ CountOf("particles") = 80

C6_Witness == pc = "cleanup" /\ Len(calls) = 134

\* C7: every outcome of a position draw lies between the limits it was
\* drawn with, and so inside the canvas [0, 10] x [0, 10].
C7_SamplesInsideCanvas ==
    pc = "sampled" =>
        /\ sample[2] <= sample[4] /\ sample[4] <= sample[3]
        /\ 0 <= sample[4] /\ sample[4] <= 1000

\* A mesh point of the top-right region drawn close to its upper limit.
C7_Witness ==
    /\ pc = "sampled"
    /\ sample[1] = "mesh_x" /\ sample[3] = 950 /\ sample[4] > 900

\* C8 as stated: both exports have the same pixel size, the figure size
\* times the DPI, 3840 x 2160.
C8_FigsizeTimesDpi ==
    written = <<PNG, JPG>> =>
        /\ files[PNG].width = files[JPG].width
        /\ files[PNG].height = files[JPG].height
        /\ files[PNG].width = (figsize[1] * dpi) \div 1000
        /\ files[PNG].height = (figsize[2] * dpi) \div 1000
        /\ <<files[PNG].width, files[PNG].height>> = <<3840, 2160>>

\* C9: the PNG is written with an alpha channel and no fill, the JPEG with
\* no alpha channel over the fill #1937b4, and between the two exports the
\* figure and axes have their own facecolors back.
C9_TransparentPngOpaqueJpeg ==
    /\ (written # <<>>) =>
          /\ files[PNG].format = "png"
          /\ files[PNG].alpha
          /\ files[PNG].fill = "none"
    /\ (Len(written) = 2) =>
          /\ files[JPG].format = "jpg"
          /\ ~files[JPG].alpha
          /\ files[JPG].fill = "#1937b4"
    /\ (written # <<>> /\ fig.open) =>
          /\ fig.face = NewFigure.face
          /\ fig.axface = NewFigure.axface

C9_Witness ==
    /\ written = <<PNG, JPG>>
    /\ files[PNG].fill = "none" /\ files[JPG].fill = "#1937b4"

\* The arguments of the calls of every layer but the mesh.
ArgsOutsideMesh(cs) ==
    LET rest == SelectSeq(cs, LAMBDA c : c.layer # "mesh")
    IN  [k \in 1..Len(rest) |-> <<rest[k].layer, rest[k].kind, rest[k].args>>]

\* C10: with the mesh layer edited between the runs (fewer regions, or
\* another number of points), the particle arrays of run 2 are those of
\* run 1, and every call outside the mesh layer has the same arguments.
C10_ParticlesIndependentOfMesh ==
    run = 2 =>
        /\ (px # NoArrays /\ prev.px # NoArrays) =>
              /\ px = prev.px /\ py = prev.py
              /\ sizes = prev.sizes /\ alphas = prev.alphas
        /\ BothFinished =>
              ArgsOutsideMesh(calls) = ArgsOutsideMesh(prev.calls)

C10_Witness ==
    /\ BothFinished
    /\ regions # prev.regions
    /\ Len(regions) < Len(prev.regions)
    /\ px = prev.px /\ Len(px) = n_particles

====
